---- MODULE Spec2Model ----
(***************************************************************************)
(* A model of src/main.py: the request executor make_http_request and the  *)
(* tool handler call_tool, in particular its wait_for_execution_completion *)
(* polling loop.                                                           *)
(*                                                                         *)
(* Python values are tagged records [t |-> tag, v |-> payload]: a dict is  *)
(* Obj(m) with m a function from string keys, a list is Arr(s), None is    *)
(* Null.  A response body is a text; it is either the JSON serialisation   *)
(* of a value (JsonText) or a text that is no JSON document (RawText).     *)
(* Time is the event loop's clock `now`, in whole time units.              *)
(***************************************************************************)
EXTENDS Integers, Sequences, FiniteSets, TLC

\* ------------------------------------------------------------------ bounds
MaxTimeout == 3        \* largest `timeout` argument
MaxPollInterval == 2   \* largest `poll_interval` argument
MaxLogs == 3           \* longest log list the remote service returns
MaxPolls == 3          \* status fetches of one session the model follows
ScriptLen == 2         \* answers the remote service holds ready for one call

\* --------------------------------------------------------------- values
Obj(m) == [t |-> "obj", v |-> m]
Arr(s) == [t |-> "arr", v |-> s]
Str(s) == [t |-> "str", v |-> s]
Null == [t |-> "null", v |-> <<>>]

\* dict.get(key, default)
Get(m, key, default) == IF key \in DOMAIN m THEN m[key] ELSE default

JsonText(doc) == [syntax |-> "json", doc |-> doc]
RawText(s) == [syntax |-> "raw", doc |-> Str(s)]

\* response.json(): the decoded document, or json.JSONDecodeError
json_loads(text) ==
    IF text.syntax = "json" THEN [ok |-> TRUE, value |-> text.doc]
    ELSE [ok |-> FALSE, value |-> Null]

\* json.dumps(value, indent=2)
json_dumps(value) == [syntax |-> "json", doc |-> value, indent |-> 2]

\* ------------------------------------------------------ the remote service
Response(code, text, retry_after) ==
    [kind |-> "response", status_code |-> code, text |-> text,
     retry_after |-> retry_after]
TimeoutException == [kind |-> "timeout"]
RequestError(cause) == [kind |-> "request_error", cause |-> cause]

StatusCodes == {200, 399, 400, 429, 500}
RetryAfterHeaders == {"absent", "2", "soon"}
ExecBodies ==
    { JsonText(Obj([status |-> "RUNNING"])), JsonText(Arr(<<>>)), RawText("OK") }

\* what the remote service can answer to one attempt of any call
ExecOutcomes ==
    { Response(c, b, "absent") : c \in StatusCodes, b \in ExecBodies }
    \cup { Response(429, b, h) : b \in ExecBodies, h \in RetryAfterHeaders }
    \cup { TimeoutException, RequestError("connection refused") }

RECURSIVE SeqsOfLen(_, _)
SeqsOfLen(S, n) ==
    IF n = 0 THEN { <<>> }
    ELSE { <<x>> \o s : x \in S, s \in SeqsOfLen(S, n - 1) }

ExecScripts == SeqsOfLen(ExecOutcomes, ScriptLen)

\* the answers to the status fetch of a poll session
PollStatusBodies ==
    { JsonText(Obj([status |-> s])) :
          s \in {"RUNNING", "COMPLETED", "FAILED", "completed"} }
    \cup { JsonText(Obj([id |-> "e1"])), JsonText(Arr(<<>>)), RawText("OK") }

PollStatusOutcomes ==
    { Response(200, b, "absent") : b \in PollStatusBodies }
    \cup { Response(500, RawText("OK"), "absent"),
           Response(429, RawText("OK"), "2"),
           TimeoutException, RequestError("connection refused") }

\* the i-th entry of the remote log; the first one carries a message only
Entry(i) ==
    IF i = 1 THEN Obj([message |-> ToString(i)])
    ELSE Obj([level |-> "ERROR", task_id |-> "t1", message |-> ToString(i)])
BadEntry == Str("x")

\* a log list of n entries, the b-th of which (if b > 0) is no mapping
LogList(n, b) == [i \in 1..n |-> IF i = b THEN BadEntry ELSE Entry(i)]

LogBodies ==
    { JsonText(Obj([logs |-> Arr(LogList(n, b))])) : n \in 0..MaxLogs, b \in 0..MaxLogs }
    \cup { JsonText(Obj([logs |-> Null])), JsonText(Obj([id |-> "e1"])),
           JsonText(Arr(<<>>)) }

LogOutcomes ==
    { Response(200, b, "absent") : b \in LogBodies }
    \cup { Response(500, RawText("OK"), "absent"), TimeoutException }

\* the log answers of a remote service whose log endpoint fails or returns a
\* well-formed list
PlainLogOutcomes ==
    { Response(200, JsonText(Obj([logs |-> Arr(LogList(n, 0))])), "absent") :
          n \in {0, MaxLogs} }
    \cup { Response(500, RawText("OK"), "absent") }

\* the answers of a remote service whose log endpoint is out of order
FailedLogOutcomes ==
    { Response(500, RawText("OK"), "absent"), Response(429, RawText("OK"), "2"),
      TimeoutException, RequestError("connection refused") }

\* the status answers of a remote service that reports a running or a
\* completed execution, or fails
FewStatusOutcomes ==
    { Response(200, JsonText(Obj([status |-> s])), "absent") :
          s \in {"RUNNING", "COMPLETED"} }
    \cup { Response(500, RawText("OK"), "absent") }

\* the status answers of a remote service that spells its statuses in many
\* ways, or leaves the status out
SpelledStatusOutcomes ==
    { Response(200, JsonText(Obj([status |-> s])), "absent") :
          s \in {"RUNNING", "COMPLETED", "FAILED", "completed", "Failed",
                 "SUCCESS"} }
    \cup { Response(200, JsonText(Obj([id |-> "e1"])), "absent") }

\* the time one HTTP call of a poll session takes: less than the time unit,
\* or one unit
Latencies == {0, 1}
PollIntervals == 0..MaxPollInterval
Timeouts == 0..MaxTimeout

\* ------------------------------------------------------- make_http_request
McpError(code, message) ==
    [ok |-> FALSE, exc |-> "McpError", code |-> code, message |-> message]
\* any other Python exception
PyError(type) == [ok |-> FALSE, exc |-> type]
Return(value) == [ok |-> TRUE, value |-> value]

\* lines 499-504: the parsed body pretty-printed, or the raw text
error_detail(response) ==
    LET d == json_loads(response.text)
    IN  IF d.ok THEN json_dumps(d.value) ELSE response.text

\* a decoded document that is no mapping comes back wrapped in one
handle_response_wrapping(response) ==
    IF response.status_code >= 400
    THEN McpError("INTERNAL_ERROR",
                  [form |-> "HTTP", status_code |-> response.status_code,
                   detail |-> error_detail(response)])
    ELSE LET d == json_loads(response.text)
         IN  IF d.ok
             THEN Return(IF d.value.t = "obj" THEN d.value
                         ELSE Obj([data |-> d.value]))
             ELSE Return(Obj([message |-> response.text,
                              status_code |-> response.status_code]))

\* a body that is no JSON is an error
handle_response_strict(response) ==
    IF response.status_code >= 400
    THEN McpError("INTERNAL_ERROR",
                  [form |-> "HTTP", status_code |-> response.status_code,
                   detail |-> error_detail(response)])
    ELSE LET d == json_loads(response.text)
         IN  IF d.ok THEN Return(d.value)
             ELSE McpError("INTERNAL_ERROR", [form |-> "Invalid JSON"])

\* status 400 itself passes for a success
handle_response_above_400(response) ==
    IF response.status_code > 400
    THEN McpError("INTERNAL_ERROR",
                  [form |-> "HTTP", status_code |-> response.status_code,
                   detail |-> error_detail(response)])
    ELSE LET d == json_loads(response.text)
         IN  IF d.ok THEN Return(d.value)
             ELSE Return(Obj([message |-> response.text,
                              status_code |-> response.status_code]))

\* lines 497-516: what becomes of a response that arrived
handle_response(response) ==
    IF response.status_code >= 400
    THEN McpError("INTERNAL_ERROR",
                  [form |-> "HTTP", status_code |-> response.status_code,
                   detail |-> error_detail(response)])
    ELSE LET d == json_loads(response.text)
         IN  IF d.ok THEN Return(d.value)
             ELSE Return(Obj([message |-> response.text,
                              status_code |-> response.status_code]))

\* lines 486-527: what one `await client.request(...)` that ended as o
\* makes the call return or raise
\* the handler for request errors comes first and takes the timeout too
attempt_result_request_error_first(o) ==
    IF o.kind \in {"timeout", "request_error"}
    THEN McpError("INTERNAL_ERROR",
                  [form |-> "Request failed",
                   cause |-> IF o.kind = "timeout" THEN "timeout" ELSE o.cause])
    ELSE handle_response(o)

attempt_result(o) ==
    IF o.kind = "timeout"
    THEN McpError("INTERNAL_ERROR", [form |-> "Request timed out"])
    ELSE IF o.kind = "request_error"
    THEN McpError("INTERNAL_ERROR", [form |-> "Request failed", cause |-> o.cause])
    ELSE handle_response(o)

\* The remote service answers the successive attempts of one call with
\* script[1], script[2], ... and goes on giving its last answer.
OutcomeAt(script, i) == script[IF i <= Len(script) THEN i ELSE Len(script)]

RetryAfterPause(header) == IF header = "2" THEN 2 ELSE 1

\* An executor that retries: up to `budget` attempts, a 429 retried after the
\* Retry-After pause when on429, a timeout or request error retried after one
\* time unit when onTransport.
RECURSIVE retrying(_, _, _, _, _, _)
retrying(script, i, budget, on429, onTransport, sleeps) ==
    LET o == OutcomeAt(script, i)
    IN  IF i < budget /\ on429 /\ o.kind = "response" /\ o.status_code = 429
        THEN retrying(script, i + 1, budget, on429, onTransport,
                      Append(sleeps, RetryAfterPause(o.retry_after)))
        ELSE IF i < budget /\ onTransport /\ o.kind \in {"timeout", "request_error"}
        THEN retrying(script, i + 1, budget, on429, onTransport, Append(sleeps, 1))
        ELSE [attempts |-> i, sleeps |-> sleeps, result |-> attempt_result(o)]

make_http_request_retry3(script) == retrying(script, 1, 3, TRUE, TRUE, <<>>)
make_http_request_retry429(script) == retrying(script, 1, 3, TRUE, FALSE, <<>>)
make_http_request_retry_transport(script) == retrying(script, 1, 3, FALSE, TRUE, <<>>)
make_http_request_retry4(script) == retrying(script, 1, 4, TRUE, TRUE, <<>>)

\* One call of make_http_request (lines 474-527) against a remote service
\* that would answer the call's successive attempts with script[1],
\* script[2], ...: the number of requests the call sends, the time it sleeps
\* between them, its result.  The function sends one request.
make_http_request(script) ==
    [attempts |-> 1, sleeps |-> <<>>, result |-> attempt_result(Head(script))]

\* ------------------------------------------------------------- the state
Sessions == {"s1", "s2"}   \* tool invocations

VARIABLES
    pc,              \* where each invocation's coroutine stands
    tool,            \* request.params.name
    args,            \* request.params.arguments
    now,             \* asyncio.get_event_loop().time()
    start_time,      \* wait_for_execution_completion: start_time
    last_log_count,  \*   last_log_count
    status_updates,  \*   status_updates, the timeline
    current_status,  \*   current_status
    status_result,   \*   status_result
    http,            \* the invocation's latest make_http_request call
    sent,            \* HTTP requests the invocation has sent, by purpose
    observed,        \* the statuses its status fetches returned, in order
    status_began,    \* the elapsed time at which its latest status fetch began
    logs_from,       \* last_log_count as its latest log step found it
    wake_at,         \* the time at which the sleep it is in is over
    outcome          \* what call_tool returned or raised

vars == <<pc, tool, args, now, start_time, last_log_count, status_updates,
          current_status, status_result, http, sent, observed,
          status_began, logs_from, wake_at, outcome>>

\* what is kept of the fetches an invocation has made
history == <<observed, status_began, logs_from>>

poll_vars == <<start_time, last_log_count, status_updates, current_status,
               status_result>>

\* the tools that check one or more required arguments and then send one
\* request, each with the arguments it checks and the message it fails with
CheckedTools ==
    [update_workflow |-> {"workflow_id"},
     delete_workflow |-> {"workflow_id"},
     get_workflow_dashboard |-> {"workflow_id"},
     validate_workflow_yaml |-> {"yaml_content"},
     execute_workflow |-> {"workflow_id"},
     get_workflow_input_format |-> {"workflow_id"},
     get_execution_status |-> {"execution_id"},
     get_execution_logs |-> {"execution_id"},
     get_task_output |-> {"execution_id", "task_id"},
     get_workflow_execution_logs |-> {"workflow_id"},
     create_trigger |-> {"name", "workflow_id", "trigger_type"},
     get_trigger |-> {"trigger_id"},
     get_workflow_triggers |-> {"workflow_id"},
     update_trigger |-> {"trigger_id"},
     delete_trigger |-> {"trigger_id"},
     execute_trigger |-> {"trigger_id"}]

RequiredMessage(name) ==
    IF name = "get_task_output" THEN "Both execution_id and task_id are required"
    ELSE IF name = "create_trigger"
    THEN "name, workflow_id, and trigger_type are required"
    ELSE IF CheckedTools[name] = {"workflow_id"} THEN "workflow_id is required"
    ELSE IF CheckedTools[name] = {"execution_id"} THEN "execution_id is required"
    ELSE IF CheckedTools[name] = {"trigger_id"} THEN "trigger_id is required"
    ELSE "yaml_content is required"

ToolNames == {"get_all_workflows", "get_workflow", "create_workflow",
              "wait_for_execution_completion", "no_such_tool"}
             \cup DOMAIN CheckedTools

\* what args.get(key) gives for a key that is not among the arguments
Absent == "<absent>"
\* an argument is absent, empty, or has a value
ArgIds == {Absent, "", "e1"}
\* Python's `not value`
Falsy(value) == value \in {Absent, ""}

NoArgs ==
    [workflow_id |-> Absent, execution_id |-> Absent, task_id |-> Absent,
     trigger_id |-> Absent, yaml_content |-> Absent, workflow_data |-> Absent,
     name |-> Absent, trigger_type |-> Absent, poll_interval |-> 0,
     timeout |-> 0, show_logs |-> FALSE]

\* the arguments with each of `keys` absent, empty or given
ArgsOver(keys) ==
    { [k \in DOMAIN NoArgs |-> IF k \in keys THEN f[k] ELSE NoArgs[k]] :
          f \in [keys -> ArgIds] }

ArgsOf(name) ==
    IF name = "get_workflow"
    THEN { [NoArgs EXCEPT !.workflow_id = w] : w \in ArgIds }
    ELSE IF name = "create_workflow"
    THEN ArgsOver({"yaml_content", "workflow_data"})
    ELSE IF name \in DOMAIN CheckedTools
    THEN ArgsOver(CheckedTools[name])
    ELSE IF name = "wait_for_execution_completion"
    THEN { NoArgs, [NoArgs EXCEPT !.execution_id = ""] }
         \cup { [NoArgs EXCEPT !.execution_id = "e1", !.poll_interval = i,
                               !.timeout = t, !.show_logs = l] :
                    i \in PollIntervals, t \in Timeouts, l \in BOOLEAN }
    ELSE { NoArgs }

NoCall ==
    [purpose |-> "none", script |-> <<>>, attempts |-> 0, sleeps |-> <<>>,
     result |-> Null]
NoneSent == [status |-> 0, logs |-> 0, plain |-> 0]
Pending == [kind |-> "pending"]
Returned(result) == [kind |-> "returned", result |-> result]
Raised(error) == [kind |-> "raised", error |-> error]

\* one invocation, of any tool with any arguments
Init ==
    /\ now = 0
    /\ tool \in [Sessions -> ToolNames]
    /\ args \in [Sessions -> UNION { ArgsOf(n) : n \in ToolNames }]
    /\ pc = [p \in Sessions |-> IF p = "s1" THEN "start" ELSE "off"]
    /\ tool["s2"] = "no_such_tool"
    /\ \A p \in Sessions : args[p] \in ArgsOf(tool[p])
    /\ start_time = [p \in Sessions |-> 0]
    /\ last_log_count = [p \in Sessions |-> 0]
    /\ status_updates = [p \in Sessions |-> <<>>]
    /\ current_status = [p \in Sessions |-> ""]
    /\ status_result = [p \in Sessions |-> Null]
    /\ http = [p \in Sessions |-> NoCall]
    /\ sent = [p \in Sessions |-> NoneSent]
    /\ observed = [p \in Sessions |-> <<>>]
    /\ status_began = [p \in Sessions |-> 0]
    /\ logs_from = [p \in Sessions |-> 0]
    /\ wake_at = [p \in Sessions |-> 0]
    /\ outcome = [p \in Sessions |-> Pending]

\* --------------------------------------------------------------- call_tool
\* every exception, an McpError too, is taken for an unexpected one
reraise_all_unexpected(e, name) ==
    McpError("INTERNAL_ERROR",
             [form |-> "Unexpected error in", tool |-> name, cause |-> e.exc])

\* every exception is re-raised as it is
reraise_untyped(e, name) == e

\* lines 1148-1156: an McpError is re-raised as it is, any other exception
\* becomes an McpError naming the tool
reraise(e, name) ==
    IF e.exc = "McpError" THEN e
    ELSE McpError("INTERNAL_ERROR",
                  [form |-> "Unexpected error in", tool |-> name,
                   cause |-> e.exc])

\* the invocation ends, returning or raising
Finish(p, o) ==
    /\ pc' = [pc EXCEPT ![p] = "done"]
    /\ outcome' = [outcome EXCEPT ![p] = o]

\* `result = await make_http_request(...)` of a tool that makes one call
Await(p, purpose, script) ==
    LET r == make_http_request(script)
    IN  /\ http' = [http EXCEPT ![p] =
                       [purpose |-> purpose, script |-> script,
                        attempts |-> r.attempts,
                        sleeps |-> r.sleeps, result |-> r.result]]
        /\ sent' = [sent EXCEPT ![p][purpose] = @ + r.attempts]

\* lines 637-657
GetAllWorkflows(p) ==
    /\ pc[p] = "start"
    /\ tool[p] = "get_all_workflows"
    /\ \E script \in ExecScripts :
          /\ Await(p, "plain", script)
          /\ LET r == make_http_request(script).result
             IN  Finish(p, IF r.ok THEN Returned([variant |-> "Text", data |-> r.value])
                           ELSE Raised(reraise(r, tool[p])))
    /\ UNCHANGED <<tool, args, now, poll_vars, history, wake_at>>

\* lines 622-635
GetWorkflow(p) ==
    /\ pc[p] = "start"
    /\ tool[p] = "get_workflow"
    /\ IF Falsy(args[p].workflow_id)
       THEN /\ Finish(p, Raised(reraise(
                     McpError("INVALID_PARAMS", [form |-> "workflow_id is required"]),
                     tool[p])))
            /\ UNCHANGED <<http, sent>>
       ELSE \E script \in ExecScripts :
              /\ Await(p, "plain", script)
              /\ LET r == make_http_request(script).result
                 IN  Finish(p, IF r.ok
                               THEN Returned([variant |-> "Text", data |-> r.value])
                               ELSE Raised(reraise(r, tool[p])))
    /\ UNCHANGED <<tool, args, now, poll_vars, history, wake_at>>

\* lines 599-620
CreateWorkflow(p) ==
    /\ pc[p] = "start"
    /\ tool[p] = "create_workflow"
    /\ IF Falsy(args[p].yaml_content) /\ Falsy(args[p].workflow_data)
       THEN /\ Finish(p, Raised(reraise(
                     McpError("INVALID_PARAMS",
                              [form |-> "Either yaml_content or workflow_data is required"]),
                     tool[p])))
            /\ UNCHANGED <<http, sent>>
       ELSE \E o \in ExecOutcomes :
              /\ Await(p, "plain", <<o>>)
              /\ LET r == make_http_request(<<o>>).result
                 IN  Finish(p, IF r.ok
                               THEN Returned([variant |-> "Text", data |-> r.value])
                               ELSE Raised(reraise(r, tool[p])))
    /\ UNCHANGED <<tool, args, now, poll_vars, history, wake_at>>

\* the call fails only when every required argument is missing
CheckedTool_any_given(p) ==
    /\ pc[p] = "start"
    /\ tool[p] \in DOMAIN CheckedTools
    /\ IF \A k \in CheckedTools[tool[p]] : Falsy(args[p][k])
       THEN /\ Finish(p, Raised(reraise(
                     McpError("INVALID_PARAMS", [form |-> RequiredMessage(tool[p])]),
                     tool[p])))
            /\ UNCHANGED <<http, sent>>
       ELSE \E o \in ExecOutcomes :
              /\ Await(p, "plain", <<o>>)
              /\ LET r == make_http_request(<<o>>).result
                 IN  Finish(p, IF r.ok
                               THEN Returned([variant |-> "Text", data |-> r.value])
                               ELSE Raised(reraise(r, tool[p])))
    /\ UNCHANGED <<tool, args, now, poll_vars, history, wake_at>>

\* lines 659-1056: the branches that check their required arguments with
\* `if not ...` and then send one request
CheckedTool(p) ==
    /\ pc[p] = "start"
    /\ tool[p] \in DOMAIN CheckedTools
    /\ IF \E k \in CheckedTools[tool[p]] : Falsy(args[p][k])
       THEN /\ Finish(p, Raised(reraise(
                     McpError("INVALID_PARAMS", [form |-> RequiredMessage(tool[p])]),
                     tool[p])))
            /\ UNCHANGED <<http, sent>>
       ELSE \E o \in ExecOutcomes :
              /\ Await(p, "plain", <<o>>)
              /\ LET r == make_http_request(<<o>>).result
                 IN  Finish(p, IF r.ok
                               THEN Returned([variant |-> "Text", data |-> r.value])
                               ELSE Raised(reraise(r, tool[p])))
    /\ UNCHANGED <<tool, args, now, poll_vars, history, wake_at>>

\* lines 1142-1146
UnknownTool(p) ==
    /\ pc[p] = "start"
    /\ tool[p] = "no_such_tool"
    /\ Finish(p, Raised(reraise(
          McpError("METHOD_NOT_FOUND", [form |-> "Unknown tool", tool |-> tool[p]]),
          tool[p])))
    /\ UNCHANGED <<tool, args, now, poll_vars, http, sent, history, wake_at>>

\* ------------------------------------------- wait_for_execution_completion
Elapsed(p) == now - start_time[p]

\* line 1095: f"[{elapsed:.1f}s] Status: {current_status}"
StatusLine(elapsed, status) ==
    [line |-> "status", elapsed |-> elapsed, status |-> status]

\* lines 1106-1109: f"    [{level}] {task_id}: {message}"
LogLine(log) ==
    [line |-> "log",
     level |-> Get(log.v, "level", "INFO"),
     task_id |-> Get(log.v, "task_id", "unknown"),
     message |-> Get(log.v, "message", "No message")]

Min(S) == CHOOSE x \in S : \A y \in S : x <= y

\* a log fetch that failed is written into the timeline
log_step_reporting(r, cursor) ==
    IF ~r.ok
    THEN [lines |-> <<[line |-> "log", level |-> "ERROR", task_id |-> "unknown",
                       message |-> "logs unavailable"]>>,
          count |-> cursor]
    ELSE [lines |-> <<>>, count |-> cursor]

\* the new entries are rendered newest first
log_step_newest_first(r, cursor) ==
    IF r.ok /\ r.value.t = "obj" /\ Get(r.value.v, "logs", Arr(<<>>)).t = "arr"
    THEN LET logs == Get(r.value.v, "logs", Arr(<<>>))
             n == Len(logs.v)
         IN  [lines |-> [k \in 1..(n - cursor) |->
                            IF logs.v[n + 1 - k].t = "obj"
                            THEN LogLine(logs.v[n + 1 - k])
                            ELSE LogLine(Obj([message |-> "?"]))],
              count |-> n]
    ELSE [lines |-> <<>>, count |-> cursor]

\* the whole list is rendered at every fetch
log_step_from_start(r, cursor) ==
    IF r.ok /\ r.value.t = "obj" /\ Get(r.value.v, "logs", Arr(<<>>)).t = "arr"
    THEN LET logs == Get(r.value.v, "logs", Arr(<<>>))
         IN  [lines |-> [k \in 1..Len(logs.v) |->
                            IF logs.v[k].t = "obj" THEN LogLine(logs.v[k])
                            ELSE LogLine(Obj([message |-> "?"]))],
              count |-> Len(logs.v)]
    ELSE [lines |-> <<>>, count |-> cursor]

\* lines 1099-1113, after the log fetch came back with r: the lines the try
\* block appends and the value it leaves in last_log_count.  An exception
\* anywhere in the block ends it where it stands.
log_step(r, cursor) ==
    LET skip == [lines |-> <<>>, count |-> cursor]
    IN  IF ~r.ok THEN skip
        ELSE IF r.value.t # "obj" THEN skip
        ELSE LET logs == Get(r.value.v, "logs", Arr(<<>>))
             IN  IF logs.t # "arr" THEN skip
                 ELSE LET n == Len(logs.v)
                          bad == { i \in (cursor + 1)..n : logs.v[i].t # "obj" }
                          stop == IF bad = {} THEN n + 1 ELSE Min(bad)
                      IN  [lines |-> [k \in 1..(stop - 1 - cursor) |->
                                         LogLine(logs.v[cursor + k])],
                           count |-> IF bad = {} THEN n ELSE cursor]

\* the timeline and the cursor live at module level: one of each for all
\* invocations
PollStart_shared(p) ==
    /\ pc[p] = "start"
    /\ tool[p] = "wait_for_execution_completion"
    /\ IF Falsy(args[p].execution_id)
       THEN /\ Finish(p, Raised(reraise(
                     McpError("INVALID_PARAMS", [form |-> "execution_id is required"]),
                     tool[p])))
            /\ UNCHANGED poll_vars
       ELSE /\ pc' = [pc EXCEPT ![p] = "while"]
            /\ start_time' = [start_time EXCEPT ![p] = now]
            /\ last_log_count' = [q \in Sessions |-> 0]
            /\ status_updates' = [q \in Sessions |-> <<>>]
            /\ UNCHANGED <<current_status, status_result, outcome>>
    /\ UNCHANGED <<tool, args, now, http, sent, history, wake_at>>

\* lines 1069-1087
PollStart(p) ==
    /\ pc[p] = "start"
    /\ tool[p] = "wait_for_execution_completion"
    /\ IF Falsy(args[p].execution_id)
       THEN /\ Finish(p, Raised(reraise(
                     McpError("INVALID_PARAMS", [form |-> "execution_id is required"]),
                     tool[p])))
            /\ UNCHANGED poll_vars
       ELSE /\ pc' = [pc EXCEPT ![p] = "while"]
            /\ start_time' = [start_time EXCEPT ![p] = now]
            /\ last_log_count' = [last_log_count EXCEPT ![p] = 0]
            /\ status_updates' = [status_updates EXCEPT ![p] = <<>>]
            /\ UNCHANGED <<current_status, status_result, outcome>>
    /\ UNCHANGED <<tool, args, now, http, sent, history, wake_at>>

\* the loop goes on while the elapsed time has not passed the budget
PollWhile_inclusive(p) ==
    /\ pc[p] = "while"
    /\ IF Elapsed(p) <= args[p].timeout
       THEN /\ sent[p].status < MaxPolls
            /\ pc' = [pc EXCEPT ![p] = "status"]
            /\ UNCHANGED outcome
       ELSE Finish(p, Returned([variant |-> "TimedOut",
                                timeline |-> status_updates[p]]))
    /\ UNCHANGED <<tool, args, now, poll_vars, http, sent, history, wake_at>>

\* line 1089, and lines 1131-1140 when the condition fails
PollWhile(p) ==
    /\ pc[p] = "while"
    /\ IF Elapsed(p) < args[p].timeout
       THEN /\ sent[p].status < MaxPolls
            /\ pc' = [pc EXCEPT ![p] = "status"]
            /\ UNCHANGED outcome
       ELSE Finish(p, Returned([variant |-> "TimedOut",
                                timeline |-> status_updates[p]]))
    /\ UNCHANGED <<tool, args, now, poll_vars, http, sent, history, wake_at>>

\* a terminal status is acted on before the log step
FetchStatusFrom_check_first(p, outcomes, latencies) ==
    /\ pc[p] = "status"
    /\ \E o \in outcomes, d \in latencies :
          LET r == make_http_request(<<o>>).result
          IN  /\ Await(p, "status", <<o>>)
              /\ now' = now + d
              /\ status_began' = [status_began EXCEPT ![p] = Elapsed(p)]
              /\ IF ~r.ok
                 THEN /\ Finish(p, Raised(reraise(r, tool[p])))
                      /\ UNCHANGED <<poll_vars, observed>>
                 ELSE IF r.value.t # "obj"
                 THEN /\ Finish(p, Raised(reraise(PyError("AttributeError"), tool[p])))
                      /\ status_result' = [status_result EXCEPT ![p] = r.value]
                      /\ UNCHANGED <<start_time, last_log_count, status_updates,
                                     current_status, observed>>
                 ELSE LET status == Get(r.value.v, "status", "Unknown")
                      IN  /\ status_result' = [status_result EXCEPT ![p] = r.value]
                          /\ current_status' = [current_status EXCEPT ![p] = status]
                          /\ observed' = [observed EXCEPT ![p] = Append(@, status)]
                          /\ status_updates' = [status_updates EXCEPT ![p] =
                                Append(@, StatusLine(now' - start_time[p], status))]
                          /\ pc' = [pc EXCEPT ![p] =
                                IF args[p].show_logs
                                   /\ status \notin {"COMPLETED", "FAILED"}
                                THEN "logs" ELSE "terminal"]
                          /\ UNCHANGED <<start_time, last_log_count, outcome>>
    /\ UNCHANGED <<tool, args, logs_from, wake_at>>

\* lines 1090-1095, against a remote service that answers the status fetch
\* with one of `outcomes`
FetchStatusFrom(p, outcomes, latencies) ==
    /\ pc[p] = "status"
    /\ \E o \in outcomes, d \in latencies :
          LET r == make_http_request(<<o>>).result
          IN  /\ Await(p, "status", <<o>>)
              /\ now' = now + d
              /\ status_began' = [status_began EXCEPT ![p] = Elapsed(p)]
              /\ IF ~r.ok
                 THEN /\ Finish(p, Raised(reraise(r, tool[p])))
                      /\ UNCHANGED <<poll_vars, observed>>
                 ELSE IF r.value.t # "obj"
                 THEN /\ Finish(p, Raised(reraise(PyError("AttributeError"), tool[p])))
                      /\ status_result' = [status_result EXCEPT ![p] = r.value]
                      /\ UNCHANGED <<start_time, last_log_count, status_updates,
                                     current_status, observed>>
                 ELSE LET status == Get(r.value.v, "status", "Unknown")
                      IN  /\ status_result' = [status_result EXCEPT ![p] = r.value]
                          /\ current_status' = [current_status EXCEPT ![p] = status]
                          /\ observed' = [observed EXCEPT ![p] = Append(@, status)]
                          /\ status_updates' = [status_updates EXCEPT ![p] =
                                Append(@, StatusLine(now' - start_time[p], status))]
                          /\ pc' = [pc EXCEPT ![p] =
                                IF args[p].show_logs THEN "logs" ELSE "terminal"]
                          /\ UNCHANGED <<start_time, last_log_count, outcome>>
    /\ UNCHANGED <<tool, args, logs_from, wake_at>>

FetchStatus(p) == FetchStatusFrom(p, PollStatusOutcomes, Latencies)

\* lines 1097-1113, against a remote service that answers the log fetch with
\* one of `outcomes`
FetchLogsFrom(p, outcomes, latencies) ==
    /\ pc[p] = "logs"
    /\ \E o \in outcomes, d \in latencies :
          LET r == make_http_request(<<o>>).result
              step == log_step(r, last_log_count[p])
          IN  /\ Await(p, "logs", <<o>>)
              /\ now' = now + d
              /\ status_updates' = [status_updates EXCEPT ![p] = @ \o step.lines]
              /\ last_log_count' = [last_log_count EXCEPT ![p] = step.count]
              /\ logs_from' = [logs_from EXCEPT ![p] = last_log_count[p]]
    /\ pc' = [pc EXCEPT ![p] = "terminal"]
    /\ UNCHANGED <<tool, args, start_time, current_status, status_result,
                   observed, status_began, wake_at, outcome>>

FetchLogs(p) == FetchLogsFrom(p, PlainLogOutcomes, Latencies)

\* a status that is not terminal leads straight back to the loop condition
TerminalCheck_skip_sleep(p) ==
    /\ pc[p] = "terminal"
    /\ IF current_status[p] \in {"COMPLETED", "FAILED"}
       THEN Finish(p, Returned([variant |-> "Finished",
                                final_status |-> current_status[p],
                                timeline |-> status_updates[p],
                                final_envelope |-> status_result[p]]))
       ELSE /\ pc' = [pc EXCEPT ![p] = "while"]
            /\ UNCHANGED outcome
    /\ UNCHANGED <<tool, args, now, poll_vars, http, sent, history, wake_at>>

\* the status is compared without regard to case
TerminalCheck_any_case(p) ==
    /\ pc[p] = "terminal"
    /\ IF current_status[p] \in {"COMPLETED", "FAILED", "completed", "failed"}
       THEN Finish(p, Returned([variant |-> "Finished",
                                final_status |-> current_status[p],
                                timeline |-> status_updates[p],
                                final_envelope |-> status_result[p]]))
       ELSE /\ pc' = [pc EXCEPT ![p] = "sleep"]
            /\ UNCHANGED outcome
    /\ UNCHANGED <<tool, args, now, poll_vars, http, sent, history, wake_at>>

\* FAILED is not taken for a terminal status
TerminalCheck_completed_only(p) ==
    /\ pc[p] = "terminal"
    /\ IF current_status[p] = "COMPLETED"
       THEN Finish(p, Returned([variant |-> "Finished",
                                final_status |-> current_status[p],
                                timeline |-> status_updates[p],
                                final_envelope |-> status_result[p]]))
       ELSE /\ pc' = [pc EXCEPT ![p] = "sleep"]
            /\ UNCHANGED outcome
    /\ UNCHANGED <<tool, args, now, poll_vars, http, sent, history, wake_at>>

\* lines 1115-1126
TerminalCheck(p) ==
    /\ pc[p] = "terminal"
    /\ IF current_status[p] \in {"COMPLETED", "FAILED"}
       THEN Finish(p, Returned([variant |-> "Finished",
                                final_status |-> current_status[p],
                                timeline |-> status_updates[p],
                                final_envelope |-> status_result[p]]))
       ELSE /\ pc' = [pc EXCEPT ![p] = "sleep"]
            /\ UNCHANGED outcome
    /\ UNCHANGED <<tool, args, now, poll_vars, http, sent, history, wake_at>>

\* the sleep takes one time unit whatever poll_interval is
Sleep_one_unit(p) ==
    /\ pc[p] = "sleep"
    /\ now' = now + 1
    /\ pc' = [pc EXCEPT ![p] = "while"]
    /\ UNCHANGED <<tool, args, poll_vars, http, sent, history, wake_at, outcome>>

\* the sleep takes no time
Sleep_no_wait(p) ==
    /\ pc[p] = "sleep"
    /\ now' = now
    /\ pc' = [pc EXCEPT ![p] = "while"]
    /\ UNCHANGED <<tool, args, poll_vars, http, sent, history, wake_at, outcome>>

\* lines 1128-1129
Sleep(p) ==
    /\ pc[p] = "sleep"
    /\ now' = now + args[p].poll_interval
    /\ pc' = [pc EXCEPT ![p] = "while"]
    /\ UNCHANGED <<tool, args, poll_vars, http, sent, history, wake_at, outcome>>

Next ==
    \E p \in Sessions :
        \/ GetAllWorkflows(p)
        \/ GetWorkflow(p)
        \/ CreateWorkflow(p)
        \/ CheckedTool(p)
        \/ UnknownTool(p)
        \/ PollStart(p)
        \/ PollWhile(p)
        \/ FetchStatus(p)
        \/ FetchLogs(p)
        \/ TerminalCheck(p)
        \/ Sleep(p)

Spec == Init /\ [][Next]_vars

\* ------------------------------------------------- poll sessions only
InitPoll ==
    /\ Init
    /\ tool["s1"] = "wait_for_execution_completion"

\* a poll session whose log endpoint is out of order
FetchLogsDown(p) == FetchLogsFrom(p, FailedLogOutcomes, Latencies)

NextLogsDown ==
    \E p \in Sessions :
        \/ PollStart(p)
        \/ PollWhile(p)
        \/ FetchStatus(p)
        \/ FetchLogsDown(p)
        \/ TerminalCheck(p)
        \/ Sleep(p)

SpecLogsDown == InitPoll /\ [][NextLogsDown]_vars

\* a poll session whose log endpoint answers anything it can, and whose calls
\* take less than the time unit
FetchStatusQuick(p) == FetchStatusFrom(p, FewStatusOutcomes, {0})
FetchLogsAny(p) == FetchLogsFrom(p, LogOutcomes, {0})

NextLogs ==
    \E p \in Sessions :
        \/ PollStart(p)
        \/ PollWhile(p)
        \/ FetchStatusQuick(p)
        \/ FetchLogsAny(p)
        \/ TerminalCheck(p)
        \/ Sleep(p)

SpecLogs == InitPoll /\ [][NextLogs]_vars

\* the same session on an event loop that runs it whenever it can go on:
\* every awaited call returns and every sleep ends
SpecLogsFair == SpecLogs /\ WF_vars(NextLogs)

\* a poll session whose status endpoint spells its statuses in many ways
FetchStatusSpelled(p) == FetchStatusFrom(p, SpelledStatusOutcomes, {0})
FetchLogsQuick(p) == FetchLogsFrom(p, PlainLogOutcomes, {0})

NextSpelled ==
    \E p \in Sessions :
        \/ PollStart(p)
        \/ PollWhile(p)
        \/ FetchStatusSpelled(p)
        \/ FetchLogsQuick(p)
        \/ TerminalCheck(p)
        \/ Sleep(p)

SpecSpelled == InitPoll /\ [][NextSpelled]_vars

\* ------------------------------------------- two invocations at a time
\* call_tool is a coroutine: a second invocation runs while the first one
\* awaits.  Both wait for the same execution.
TwoArgs ==
    { [NoArgs EXCEPT !.execution_id = "e1", !.poll_interval = 1,
                     !.timeout = t, !.show_logs = l] :
          t \in {1, MaxTimeout - 1}, l \in BOOLEAN }

InitTwo ==
    /\ now = 0
    /\ tool = [p \in Sessions |-> "wait_for_execution_completion"]
    /\ args \in [Sessions -> TwoArgs]
    /\ pc = [p \in Sessions |-> "start"]
    /\ start_time = [p \in Sessions |-> 0]
    /\ last_log_count = [p \in Sessions |-> 0]
    /\ status_updates = [p \in Sessions |-> <<>>]
    /\ current_status = [p \in Sessions |-> ""]
    /\ status_result = [p \in Sessions |-> Null]
    /\ http = [p \in Sessions |-> NoCall]
    /\ sent = [p \in Sessions |-> NoneSent]
    /\ observed = [p \in Sessions |-> <<>>]
    /\ status_began = [p \in Sessions |-> 0]
    /\ logs_from = [p \in Sessions |-> 0]
    /\ wake_at = [p \in Sessions |-> 0]
    /\ outcome = [p \in Sessions |-> Pending]

Max(a, b) == IF a >= b THEN a ELSE b

\* lines 1128-1129, the sleep begins: it is over poll_interval from now
GoToSleep(p) ==
    /\ pc[p] = "sleep"
    /\ pc' = [pc EXCEPT ![p] = "asleep"]
    /\ wake_at' = [wake_at EXCEPT ![p] = now + args[p].poll_interval]
    /\ UNCHANGED <<tool, args, now, poll_vars, http, sent, history, outcome>>

\* lines 1128-1129, the sleep ends: no sooner than it is over, and later if
\* the other invocation has kept the event loop until now
WakeUp(p) ==
    /\ pc[p] = "asleep"
    /\ now' = Max(now, wake_at[p])
    /\ pc' = [pc EXCEPT ![p] = "while"]
    /\ UNCHANGED <<tool, args, poll_vars, http, sent, history, wake_at, outcome>>

NextTwo ==
    \E p \in Sessions :
        \/ PollStart(p)
        \/ PollWhile(p)
        \/ FetchStatusQuick(p)
        \/ FetchLogsQuick(p)
        \/ TerminalCheck(p)
        \/ GoToSleep(p)
        \/ WakeUp(p)

SpecTwo == InitTwo /\ [][NextTwo]_vars

\* ------------------------------------------------------------ properties
\* the first answer the latest call of p received
FirstAnswer(p) == http[p].script[1]
Called(p) == http[p].attempts > 0
IsResponse(o) == o.kind = "response"
IsSuccess(o) == o.kind = "response" /\ o.status_code < 400

\* C1: a response with status >= 400 makes the call fail with the HTTP error
\* that carries this status code and the body (pretty-printed when it is
\* JSON, as it is otherwise), after that one request and without a pause.
C1_HttpErrorNoRetry ==
    \A p \in Sessions :
        (Called(p) /\ IsResponse(FirstAnswer(p)) /\ FirstAnswer(p).status_code >= 400)
        => LET o == FirstAnswer(p)
           IN  /\ http[p].result =
                     McpError("INTERNAL_ERROR",
                              [form |-> "HTTP", status_code |-> o.status_code,
                               detail |-> IF o.text.syntax = "json"
                                          THEN json_dumps(o.text.doc) ELSE o.text])
               /\ http[p].attempts = 1
               /\ http[p].sleeps = <<>>

\* a 429 that a success would have followed: the call has failed
C1_Witness ==
    \E p \in Sessions :
        /\ pc[p] = "done" /\ tool[p] = "get_all_workflows"
        /\ FirstAnswer(p).kind = "response" /\ FirstAnswer(p).status_code = 429
        /\ IsSuccess(http[p].script[2])
        /\ outcome[p].kind = "raised"

IsTransportFailure(o) == o.kind \in {"timeout", "request_error"}

C4_AtMostThreeAttempts ==
    \A p \in Sessions :
        /\ http[p].attempts <= 3
        /\ Called(p) => /\ http[p].result.ok \in BOOLEAN
                        /\ http[p].attempts >= 1
                        /\ Len(http[p].sleeps) < http[p].attempts
        /\ sent[p].plain <= 3

\* a service that answers every attempt with 429, or every attempt with a
\* transport failure
C4_Witness ==
    \E p \in Sessions :
        /\ pc[p] = "done" /\ Called(p)
        /\ \A i \in 1..Len(http[p].script) :
              \/ IsTransportFailure(http[p].script[i])
              \/ http[p].script[i].status_code = 429
        /\ IsTransportFailure(http[p].script[Len(http[p].script)])
        /\ Len(http[p].script) = ScriptLen

\* C5: a response with status < 400 and a JSON body makes the call return the
\* decoded document itself.
C5_JsonRoundTrip ==
    \A p \in Sessions :
        (Called(p) /\ IsSuccess(FirstAnswer(p)) /\ FirstAnswer(p).text.syntax = "json")
        => http[p].result = Return(FirstAnswer(p).text.doc)

\* a JSON mapping came back with status 399
C5_Witness ==
    \E p \in Sessions :
        /\ pc[p] = "done" /\ Called(p) /\ IsSuccess(FirstAnswer(p))
        /\ FirstAnswer(p).status_code = 399
        /\ FirstAnswer(p).text = JsonText(Obj([status |-> "RUNNING"]))
        /\ outcome[p] =
              Returned([variant |-> "Text", data |-> Obj([status |-> "RUNNING"])])

\* C6: a response with status < 400 whose body T is no JSON makes the call
\* return the record {message: T, status_code: C}.
C6_NonJsonFallback ==
    \A p \in Sessions :
        (Called(p) /\ IsSuccess(FirstAnswer(p)) /\ FirstAnswer(p).text.syntax # "json")
        => http[p].result =
              Return(Obj([message |-> FirstAnswer(p).text,
                          status_code |-> FirstAnswer(p).status_code]))

\* status 399 with a body that is no JSON
C6_Witness ==
    \E p \in Sessions :
        /\ pc[p] = "done" /\ Called(p) /\ IsSuccess(FirstAnswer(p))
        /\ FirstAnswer(p).status_code = 399
        /\ FirstAnswer(p).text = RawText("OK")
        /\ outcome[p].kind = "returned"
        /\ outcome[p].result.data.v.status_code = 399

\* C7 as stated: the value of a successful call is a mapping.
C7_AlwaysMapping ==
    \A p \in Sessions :
        (Called(p) /\ http[p].result.ok) => http[p].result.value.t = "obj"

\* C7 amended: a call succeeds only on a response with status < 400, and its
\* value is then the decoded document when the body is JSON (a mapping, a
\* list or any other JSON value) and the fallback record otherwise.
C7_OneEnvelope ==
    \A p \in Sessions :
        (Called(p) /\ http[p].result.ok)
        => LET o == FirstAnswer(p)
           IN  /\ IsSuccess(o)
               /\ DOMAIN http[p].result = {"ok", "value"}
               /\ IF json_loads(o.text).ok
                  THEN http[p].result.value = o.text.doc
                  ELSE /\ http[p].result.value.t = "obj"
                       /\ DOMAIN http[p].result.value.v = {"message", "status_code"}
                       /\ http[p].result.value.v.message = o.text
                       /\ http[p].result.value.v.status_code = o.status_code

\* get_all_workflows was returned a JSON list
C7_Witness ==
    \E p \in Sessions :
        /\ pc[p] = "done" /\ tool[p] = "get_all_workflows"
        /\ http[p].result.ok
        /\ http[p].result.value.t = "arr"
        /\ outcome[p].kind = "returned"

Polls(p) == tool[p] = "wait_for_execution_completion"
TerminalStatuses == {"COMPLETED", "FAILED"}
StatusLines(timeline) == SelectSeq(timeline, LAMBDA l : l.line = "status")
Ended(p, variant) ==
    /\ pc[p] = "done"
    /\ outcome[p].kind = "returned"
    /\ outcome[p].result.variant = variant

\* C8: the first terminal status a session's status fetches return, at the
\* k-th fetch, is the last status it fetches; the session then ends Finished
\* with that status, with the timeline whose k status lines show the fetched
\* statuses in fetch order, and with the envelope of the k-th fetch.
C8_FinishedAtFirstTerminal ==
    \A p \in Sessions :
        Polls(p) =>
        LET k == Len(observed[p])
            lines == StatusLines(status_updates[p])
        IN  /\ \A i \in 1..(k - 1) : observed[p][i] \notin TerminalStatuses
            /\ (k > 0 /\ observed[p][k] \in TerminalStatuses)
               => /\ sent[p].status = k
                  /\ Len(lines) = k
                  /\ \A i \in 1..k : lines[i].status = observed[p][i]
                  /\ \A i \in 1..(k - 1) : lines[i].elapsed <= lines[i + 1].elapsed
                  /\ pc[p] \in {"logs", "terminal", "done"}
                  /\ pc[p] = "done"
                     => /\ Ended(p, "Finished")
                        /\ outcome[p].result.final_status = observed[p][k]
                        /\ outcome[p].result.timeline = status_updates[p]
                        /\ outcome[p].result.final_envelope = status_result[p]
                        /\ Get(status_result[p].v, "status", "Unknown") = observed[p][k]
                        /\ ~args[p].show_logs
                           => outcome[p].result.final_envelope = http[p].result.value

\* RUNNING, RUNNING, COMPLETED with logs shown: Finished, three status lines
\* among the lines of the timeline
C8_Witness ==
    \E p \in Sessions :
        /\ Ended(p, "Finished")
        /\ observed[p] = <<"RUNNING", "RUNNING", "COMPLETED">>
        /\ args[p].show_logs
        /\ Len(outcome[p].result.timeline) > 3
        /\ Len(StatusLines(outcome[p].result.timeline)) = 3

\* C9: whatever poll_interval and timeout the session is given, a TimedOut
\* outcome carries a timeline with at least one status line, and no final
\* envelope.
C9_TimedOutNonEmpty ==
    \A p \in Sessions :
        (Polls(p) /\ Ended(p, "TimedOut"))
        => /\ Len(outcome[p].result.timeline) >= 1
           /\ Len(StatusLines(outcome[p].result.timeline)) >= 1
           /\ "final_envelope" \notin DOMAIN outcome[p].result

\* C10: a status fetch that fails ends the session there and then with the
\* very error make_http_request raised: nothing is fetched after it, and a
\* session that returns has had every one of its status fetches succeed.
C10_StatusFailurePropagates ==
    \A p \in Sessions :
        Polls(p) =>
        /\ (http[p].purpose = "status" /\ ~http[p].result.ok)
           => /\ pc[p] = "done"
              /\ outcome[p] = Raised(http[p].result)
              /\ sent[p].status = Len(observed[p]) + 1
              /\ sent[p].logs = IF args[p].show_logs THEN Len(observed[p]) ELSE 0
        /\ outcome[p].kind = "returned" => sent[p].status = Len(observed[p])

\* the second status fetch of a session that shows logs timed out
C10_Witness ==
    \E p \in Sessions :
        /\ Polls(p) /\ pc[p] = "done"
        /\ http[p].purpose = "status"
        /\ FirstAnswer(p).kind = "timeout"
        /\ Len(observed[p]) = 1
        /\ args[p].show_logs
        /\ outcome[p].kind = "raised"

\* what a session that fetches no logs shows for the statuses it observed:
\* a timeline of their status lines only, and, once it has returned, Finished
\* with the last status when that one is terminal, TimedOut otherwise
StatusOnly(p) ==
    LET k == Len(observed[p])
    IN  /\ Len(status_updates[p]) = k
        /\ \A i \in 1..k : /\ status_updates[p][i].line = "status"
                           /\ status_updates[p][i].status = observed[p][i]
        /\ (pc[p] = "done" /\ outcome[p].kind = "returned")
           => /\ outcome[p].result.timeline = status_updates[p]
              /\ IF k > 0 /\ observed[p][k] \in TerminalStatuses
                 THEN /\ outcome[p].result.variant = "Finished"
                      /\ outcome[p].result.final_status = observed[p][k]
                 ELSE outcome[p].result.variant = "TimedOut"

\* C11: when every log fetch fails, a session with show_logs set relates to
\* the statuses it observed exactly as a session with show_logs unset does:
\* its timeline holds their status lines and no log line, last_log_count
\* stays 0, and it ends Finished with the last status if that one is
\* terminal, TimedOut otherwise.
C11_FailedLogsLeaveNoTrace ==
    \A p \in Sessions :
        Polls(p) => (StatusOnly(p) /\ last_log_count[p] = 0)

\* RUNNING then COMPLETED with show_logs set, both log fetches failed
C11_Witness ==
    \E p \in Sessions :
        /\ Ended(p, "Finished")
        /\ args[p].show_logs
        /\ observed[p] = <<"RUNNING", "COMPLETED">>
        /\ sent[p].logs = 2
        /\ http[p].purpose = "logs" /\ ~http[p].result.ok
        /\ Len(outcome[p].result.timeline) = 2

\* the log list of a log fetch whose result r the log step can render from
\* index `cursor` on: a mapping whose logs (none is an empty list) is a list
\* with a mapping at every index past the cursor
LogsOf(r) == Get(r.value.v, "logs", Arr(<<>>))
Renders(r, cursor) ==
    /\ r.ok
    /\ r.value.t = "obj"
    /\ LogsOf(r).t = "arr"
    /\ \A i \in (cursor + 1)..Len(LogsOf(r).v) : LogsOf(r).v[i].t = "obj"
LogStepOf(p) == pc[p] = "logs" /\ pc'[p] = "terminal"

\* C12: a log step whose fetch succeeded with a list of n entries keeps the
\* timeline it found, appends to it one line for each entry at the 0-based
\* indices last_log_count .. n-1, in that order, and nothing else, and sets
\* last_log_count to n; so after a list of 1 and then a list of 3 the second
\* step adds the entries 1 and 2 and not entry 0 again.
C12_NewEntriesOnly ==
    [][\A p \in Sessions :
          (LogStepOf(p) /\ Renders(http'[p].result, last_log_count[p]))
          => LET list == LogsOf(http'[p].result).v
                 c == last_log_count[p]
                 old == Len(status_updates[p])
                 new == IF Len(list) > c THEN Len(list) - c ELSE 0
             IN  /\ Len(status_updates'[p]) = old + new
                 /\ \A i \in 1..old : status_updates'[p][i] = status_updates[p][i]
                 /\ \A k \in 1..new :
                       LET line == status_updates'[p][old + k]
                           entry == list[c + k].v
                       IN  /\ line.line = "log"
                           /\ line.message = IF "message" \in DOMAIN entry
                                             THEN entry.message ELSE "No message"
                           /\ line.level = IF "level" \in DOMAIN entry
                                           THEN entry.level ELSE "INFO"
                           /\ line.task_id = IF "task_id" \in DOMAIN entry
                                             THEN entry.task_id ELSE "unknown"
                 /\ last_log_count'[p] = Len(list)]_vars

\* two consecutive log steps found lists of 1 and of 3 entries: the timeline
\* is a status line, entry 0, a status line, entries 1 and 2
C12_Witness ==
    \E p \in Sessions :
        /\ pc[p] = "terminal"
        /\ logs_from[p] = 1 /\ last_log_count[p] = 3
        /\ Len(status_updates[p]) = 5
        /\ status_updates[p][1].line = "status"
        /\ status_updates[p][2] = LogLine(Entry(1))
        /\ status_updates[p][3].line = "status"
        /\ status_updates[p][4] = LogLine(Entry(2))
        /\ status_updates[p][5] = LogLine(Entry(3))

\* C13: last_log_count never decreases in a step of a poll session, whatever
\* the log fetches return.
C13_CursorNeverDecreases ==
    [][\A p \in Sessions : last_log_count'[p] >= last_log_count[p]]_vars

\* C14: the loop is left through the Finished return exactly when the status
\* just fetched is the string COMPLETED or the string FAILED.  After any
\* other status (completed, Failed, SUCCESS, RUNNING, Unknown for a response
\* without status)
\* the session sleeps and polls on, and a session that has observed only
\* such statuses and returns has ended TimedOut.
C14_OnlyExactTerminalEnds ==
    \A p \in Sessions :
        Polls(p) =>
        LET k == Len(observed[p])
            last_is_terminal == k > 0 /\ observed[p][k] \in {"COMPLETED", "FAILED"}
        IN  /\ Ended(p, "Finished")
               => /\ last_is_terminal
                  /\ outcome[p].result.final_status = observed[p][k]
            /\ last_is_terminal
               => /\ pc[p] \in {"logs", "terminal", "done"}
                  /\ pc[p] = "done" => Ended(p, "Finished")
            /\ (k > 0 /\ ~last_is_terminal)
               => /\ pc[p] \in {"logs", "terminal", "sleep", "while", "status", "done"}
                  /\ (pc[p] = "done" /\ outcome[p].kind = "returned")
                     => Ended(p, "TimedOut")
            /\ pc[p] \in {"sleep", "while", "status"}
               => \A i \in 1..k : observed[p][i] \notin {"COMPLETED", "FAILED"}

\* a session that saw completed, Unknown and SUCCESS, and ended TimedOut
C14_Witness ==
    \E p \in Sessions :
        /\ Ended(p, "TimedOut")
        /\ observed[p] = <<"completed", "Unknown", "SUCCESS">>
        /\ Len(StatusLines(outcome[p].result.timeline)) = 3

\* the place in the remote log of the entry a log line renders
EntryIndex(line) == CHOOSE i \in 1..MaxLogs : LogLine(Entry(i)) = line

\* C15: no step of a session removes or changes a line its timeline holds;
\* a status fetch that returns a status appends one status line, stamped with
\* the time elapsed at its return, so the status lines are in the order of
\* the fetches with stamps that never decrease; and log lines that follow one
\* another are in the order of the remote log.
C15_TimelineAppendOnly ==
    /\ [][\A p \in Sessions :
            /\ Len(status_updates'[p]) >= Len(status_updates[p])
            /\ \A i \in 1..Len(status_updates[p]) :
                  status_updates'[p][i] = status_updates[p][i]
            /\ observed'[p] # observed[p]
               => status_updates'[p] =
                     Append(status_updates[p],
                            StatusLine(now' - start_time[p],
                                       observed'[p][Len(observed'[p])]))]_vars
    /\ [](\A p \in Sessions :
            LET lines == StatusLines(status_updates[p])
                n == Len(status_updates[p])
            IN  /\ Len(lines) = Len(observed[p])
                /\ \A i \in 1..Len(lines) : lines[i].status = observed[p][i]
                /\ \A i \in 1..(Len(lines) - 1) :
                      lines[i].elapsed <= lines[i + 1].elapsed
                /\ \A i \in 1..(n - 1) :
                      (status_updates[p][i].line = "log"
                         /\ status_updates[p][i + 1].line = "log")
                      => EntryIndex(status_updates[p][i])
                            < EntryIndex(status_updates[p][i + 1]))

\* a timeline of a status line, the lines of three log entries and a later
\* status line
C15_Witness ==
    \E p \in Sessions :
        /\ Len(status_updates[p]) = 5
        /\ status_updates[p][1].line = "status"
        /\ status_updates[p][2] = LogLine(Entry(1))
        /\ status_updates[p][3] = LogLine(Entry(2))
        /\ status_updates[p][4] = LogLine(Entry(3))
        /\ status_updates[p][5].line = "status"
        /\ status_updates[p][1].elapsed < status_updates[p][5].elapsed

\* everything one invocation keeps for itself
OwnState(p) ==
    <<args[p], start_time[p], last_log_count[p], status_updates[p],
      current_status[p], status_result[p], http[p], sent[p], observed[p],
      wake_at[p], outcome[p]>>

\* the outcome of p follows from the answers p itself received
OwnOutcome(p) ==
    LET k == Len(observed[p])
        lines == StatusLines(status_updates[p])
    IN  /\ Len(lines) = k
        /\ \A i \in 1..k : lines[i].status = observed[p][i]
        /\ sent[p].status \in {k, k + 1}
        /\ sent[p].status = k + 1
           => (pc[p] = "done" /\ http[p].purpose = "status"
                 /\ outcome[p] = Raised(http[p].result))
        /\ sent[p].logs <= k
        /\ ~args[p].show_logs => (sent[p].logs = 0 /\ Len(status_updates[p]) = k)
        /\ (pc[p] = "done" /\ sent[p].status = k)
           => /\ outcome[p].kind = "returned"
              /\ outcome[p].result.timeline = status_updates[p]
              /\ IF k > 0 /\ observed[p][k] \in TerminalStatuses
                 THEN /\ outcome[p].result.variant = "Finished"
                      /\ outcome[p].result.final_status = observed[p][k]
                      /\ outcome[p].result.final_envelope = status_result[p]
                 ELSE /\ outcome[p].result.variant = "TimedOut"
                      /\ Elapsed(p) >= args[p].timeout

\* C16: with two invocations waiting for the same execution at the same
\* time, every step is a step of one of them and leaves alone what the other
\* one keeps (start time, cursor, timeline, statuses, requests, outcome);
\* each one sends a status request of its own for every status it observes;
\* and the outcome of each follows from the answers it received itself,
\* as it does for an invocation that runs alone.
C16_SessionsIndependent ==
    /\ [][\A p \in Sessions :
            pc'[p] = pc[p] => OwnState(p)' = OwnState(p)]_vars
    /\ [][\E p \in Sessions :
            \A q \in Sessions \ {p} : pc'[q] = pc[q]]_vars
    /\ [](\A p \in Sessions : OwnOutcome(p))

\* both invocations have ended, the second one begun after the first, one of
\* them Finished after two status fetches and the other one TimedOut after
\* one, with the log lines only in the timeline of the one that shows logs
C16_Witness ==
    /\ Ended("s1", "Finished") /\ Ended("s2", "TimedOut")
    /\ start_time["s1"] < start_time["s2"]
    /\ observed["s1"] = <<"RUNNING", "COMPLETED">>
    /\ observed["s2"] = <<"RUNNING">>
    /\ args["s1"].show_logs /\ ~args["s2"].show_logs
    /\ Len(outcome["s1"].result.timeline) > 2
    /\ Len(outcome["s2"].result.timeline) = 1

\* the failure an invocation has ended with
Failed(p) == pc[p] = "done" /\ outcome[p].kind = "raised"
ExecutorForms == {"HTTP", "Request timed out", "Request failed"}
ValidationForms ==
    { RequiredMessage(name) : name \in DOMAIN CheckedTools }
    \cup {"workflow_id is required", "execution_id is required",
          "Either yaml_content or workflow_data is required"}
\* the message names the tool that was invoked
NamesOperation(p, message) ==
    "tool" \in DOMAIN message /\ message.tool = tool[p]
\* the message tells what went wrong
GivesCause(message) ==
    \/ message.form = "HTTP" /\ {"status_code", "detail"} \subseteq DOMAIN message
    \/ message.form = "Request timed out"
    \/ message.form \in {"Request failed", "Unexpected error in"}
          /\ "cause" \in DOMAIN message
    \/ message.form \in ValidationForms
    \/ message.form = "Unknown tool"

LastStamp(timeline) ==
    LET lines == StatusLines(timeline) IN lines[Len(lines)].elapsed

\* C18 as stated: a Finished outcome comes from a status observed before the
\* budget had elapsed.
C18_NoFinishedAfterBudget ==
    \A p \in Sessions :
        (Polls(p) /\ Ended(p, "Finished"))
        => LastStamp(outcome[p].result.timeline) < args[p].timeout

\* C18: the budget is looked at before a status fetch begins and nowhere
\* else.  Every status fetch begins with less than the budget elapsed, and
\* the status it returns ends the session Finished if it is terminal, also
\* when the budget elapsed while the fetch was under way; a session ends
\* TimedOut only with the budget elapsed and no terminal status observed.
C18_BudgetCheckedBeforeFetch ==
    \A p \in Sessions :
        Polls(p) =>
        /\ pc[p] = "status" => Elapsed(p) < args[p].timeout
        /\ sent[p].status > 0 => status_began[p] < args[p].timeout
        /\ (Len(observed[p]) > 0 /\ sent[p].status = Len(observed[p]))
           => status_began[p] <= LastStamp(status_updates[p])
        /\ Ended(p, "TimedOut")
           => /\ Elapsed(p) >= args[p].timeout
              /\ \A i \in 1..Len(observed[p]) : observed[p][i] \notin TerminalStatuses
        /\ (pc[p] = "done" /\ outcome[p].kind = "returned" /\ Len(observed[p]) > 0
              /\ observed[p][Len(observed[p])] \in TerminalStatuses)
           => Ended(p, "Finished")

\* a session Finished on a status whose fetch began within the budget and
\* returned when the budget had elapsed
C18_Witness ==
    \E p \in Sessions :
        /\ Polls(p) /\ Ended(p, "Finished")
        /\ status_began[p] < args[p].timeout
        /\ LastStamp(outcome[p].result.timeline) >= args[p].timeout
        /\ Len(observed[p]) = 2

\* C19: a poll session with poll_interval >= 1 whose awaited calls all return
\* ends, whatever statuses and log responses it is given: with a result
\* (Finished or TimedOut) or with the failure of a status fetch.
C19_SessionEnds ==
    \A p \in Sessions :
        (Polls(p) /\ pc[p] = "start" /\ args[p].poll_interval >= 1)
        ~> (pc[p] = "done"
              /\ \/ Ended(p, "Finished")
                 \/ Ended(p, "TimedOut")
                 \/ outcome[p].kind = "raised")

\* a session with poll_interval 1 that was given RUNNING at every status
\* fetch the budget allowed, and ended TimedOut
C19_Witness ==
    \E p \in Sessions :
        /\ Ended(p, "TimedOut")
        /\ args[p].poll_interval = 1 /\ args[p].timeout = MaxTimeout
        /\ args[p].show_logs
        /\ Len(observed[p]) = MaxTimeout
        /\ sent[p].logs = MaxTimeout

\* where the latest status line of a timeline stands
LastStatusAt(timeline) ==
    CHOOSE j \in 1..Len(timeline) :
        /\ timeline[j].line = "status"
        /\ \A i \in (j + 1)..Len(timeline) : timeline[i].line = "log"

\* C20: with show_logs set, the log step of an iteration begins when the
\* status line of that iteration is the last line of the timeline, and the
\* terminal check comes after it.  So the timeline of a Finished outcome ends
\* with the line of the terminal status followed by the lines of the entries
\* the log fetch of that iteration brought past the cursor, one line each in
\* list order, and nothing else.
C20_LogsBeforeTerminalCheck ==
    \A p \in Sessions :
        (Polls(p) /\ args[p].show_logs) =>
        LET k == Len(observed[p])
            n == Len(status_updates[p])
        IN  /\ pc[p] = "logs"
               => /\ n > 0
                  /\ status_updates[p][n] \in
                        { StatusLine(e, observed[p][k]) : e \in 0..Elapsed(p) }
                  /\ sent[p].logs = k - 1
            /\ pc[p] = "terminal"
               => /\ http[p].purpose = "logs"
                  /\ sent[p].logs = k
            /\ Ended(p, "Finished")
               => LET timeline == outcome[p].result.timeline
                      j == LastStatusAt(timeline)
                      r == http[p].result
                      c == logs_from[p]
                  IN  /\ http[p].purpose = "logs"
                      /\ sent[p].logs = k
                      /\ timeline[j].status = outcome[p].result.final_status
                      /\ Len(StatusLines(timeline)) = k
                      /\ Renders(r, c)
                         => /\ Len(timeline) - j =
                                  IF Len(LogsOf(r).v) > c
                                  THEN Len(LogsOf(r).v) - c ELSE 0
                            /\ \A i \in 1..(Len(timeline) - j) :
                                  timeline[j + i] = LogLine(LogsOf(r).v[c + i])

\* Finished at the second iteration, whose log fetch brought two entries past
\* the one of the first iteration: they are the last two lines, after the
\* line of COMPLETED
C20_Witness ==
    \E p \in Sessions :
        /\ Ended(p, "Finished")
        /\ args[p].show_logs
        /\ observed[p] = <<"RUNNING", "COMPLETED">>
        /\ logs_from[p] = 1
        /\ Len(outcome[p].result.timeline) = 5
        /\ outcome[p].result.timeline[3].line = "status"
        /\ outcome[p].result.timeline[3].status = "COMPLETED"
        /\ outcome[p].result.timeline[4] = LogLine(Entry(2))
        /\ outcome[p].result.timeline[5] = LogLine(Entry(3))

\* C21: a status fetch after the first begins at least poll_interval after
\* the one before it began, and after the one before it returned.  After a
\* status that is not terminal the session goes to sleep, the sleep takes
\* poll_interval, and the loop condition comes next; after a terminal status
\* the session returns at once, with no sleep and no look at the budget.
C21_SleepBetweenFetches ==
    /\ [][\A p \in Sessions :
            Polls(p) =>
            /\ (pc[p] = "status" /\ pc'[p] # "status" /\ sent[p].status >= 1)
               => /\ status_began'[p] >= status_began[p] + args[p].poll_interval
                  /\ status_began'[p] >=
                        LastStamp(status_updates[p]) + args[p].poll_interval
            /\ (pc[p] = "terminal" /\ pc'[p] # "terminal")
               => IF current_status[p] \in TerminalStatuses
                  THEN pc'[p] = "done" /\ now' = now
                  ELSE pc'[p] = "sleep" /\ now' = now
            /\ (pc[p] = "sleep" /\ pc'[p] # "sleep")
               => /\ pc'[p] = "while"
                  /\ now' = now + args[p].poll_interval]_vars
    /\ [](\A p \in Sessions :
            (Polls(p) /\ Len(observed[p]) > 0
               /\ observed[p][Len(observed[p])] \in TerminalStatuses)
            => pc[p] \in {"logs", "terminal", "done"})

\* with poll_interval 2 and calls that take no time, the second status fetch
\* began 2 after the first
C21_Witness ==
    \E p \in Sessions :
        /\ Polls(p) /\ args[p].poll_interval = 2
        /\ observed[p] = <<"RUNNING", "RUNNING">>
        /\ status_began[p] = 2
        /\ LastStamp(status_updates[p]) = 2
        /\ pc[p] = "sleep"

\* C22: a log step that fails, because the log fetch failed or because its
\* response cannot be rendered (no mapping, logs that is no list, an entry
\* past the cursor that is no mapping), leaves the timeline and
\* last_log_count as it found them.
C22_FailedLogStepChangesNothing ==
    [][\A p \in Sessions :
          (LogStepOf(p) /\ ~Renders(http'[p].result, last_log_count[p]))
          => /\ status_updates'[p] = status_updates[p]
             /\ last_log_count'[p] = last_log_count[p]]_vars

\* how many lines of a timeline render the i-th entry of the remote log
Renderings(timeline, i) ==
    Cardinality({ j \in 1..Len(timeline) : timeline[j] = LogLine(Entry(i)) })

\* C23: whatever the log fetches of a session return, no entry of the remote
\* log is rendered into the timeline more than once.
C23_RenderedAtMostOnce ==
    \A p \in Sessions :
        \A i \in 1..MaxLogs : Renderings(status_updates[p], i) <= 1

CeilDiv(a, b) == (a + b - 1) \div b

\* C24: a session with poll_interval >= 1 sends at most
\* ceil(timeout / poll_interval) status requests (60 for a timeout of 300 and
\* a poll_interval of 5), and never more log requests than status requests.
C24_FetchCounts ==
    /\ CeilDiv(300, 5) = 60
    /\ \A p \in Sessions :
          Polls(p) =>
          /\ sent[p].logs <= sent[p].status
          /\ args[p].poll_interval >= 1
             => sent[p].status <= CeilDiv(args[p].timeout, args[p].poll_interval)

\* timeout 3 and poll_interval 2, calls that take no time: status fetches at
\* 0 and at 2, which is ceil(3 / 2) of them, each with its log fetch
C24_Witness ==
    \E p \in Sessions :
        /\ Ended(p, "TimedOut")
        /\ args[p].timeout = 3 /\ args[p].poll_interval = 2
        /\ sent[p].status = 2 /\ sent[p].logs = 2
        /\ LastStamp(outcome[p].result.timeline) = 2

\* C26: the failure of a request tells its kind.  A timeout gives "Request
\* timed out" and nothing else, a request error that is no timeout gives
\* "Request failed" with the message of the error, a response with status
\* >= 400 gives the HTTP failure with that status; and each of the three
\* failures comes from its own kind of answer only.
C26_FailureKindsApart ==
    \A p \in Sessions :
        Called(p) =>
        LET o == FirstAnswer(p)
            r == http[p].result
        IN  /\ o.kind = "timeout"
               <=> r = McpError("INTERNAL_ERROR", [form |-> "Request timed out"])
            /\ o.kind = "request_error"
               <=> (~r.ok /\ r.message.form = "Request failed")
            /\ o.kind = "request_error"
               => r = McpError("INTERNAL_ERROR",
                               [form |-> "Request failed", cause |-> o.cause])
            /\ (IsResponse(o) /\ o.status_code >= 400)
               <=> (~r.ok /\ r.message.form = "HTTP")
            /\ (IsResponse(o) /\ o.status_code >= 400)
               => r.message.status_code = o.status_code
            /\ ~r.ok => r.exc = "McpError"

\* the status fetch of a poll session met a refused connection, and the
\* session failed with "Request failed" and that cause
C26_Witness ==
    \E p \in Sessions :
        /\ Polls(p) /\ http[p].purpose = "status"
        /\ FirstAnswer(p) = RequestError("connection refused")
        /\ outcome[p] =
              Raised(McpError("INTERNAL_ERROR",
                              [form |-> "Request failed",
                               cause |-> "connection refused"]))

\* the arguments the input schema of a tool requires
RequiredOf(name) ==
    IF name = "get_workflow" THEN {"workflow_id"}
    ELSE IF name = "wait_for_execution_completion" THEN {"execution_id"}
    ELSE IF name \in DOMAIN CheckedTools THEN CheckedTools[name]
    ELSE {}
\* a required argument of the invocation is missing or empty; create_workflow
\* requires one of yaml_content and workflow_data
LacksRequired(p) ==
    \/ \E k \in RequiredOf(tool[p]) : args[p][k] \in {Absent, ""}
    \/ /\ tool[p] = "create_workflow"
       /\ args[p].yaml_content \in {Absent, ""}
       /\ args[p].workflow_data \in {Absent, ""}

\* C25: an invocation that lacks a required argument (workflow_id,
\* execution_id, task_id, trigger_id, yaml_content, name, trigger_type; it is
\* missing or it is empty) never sends a request and ends with an
\* INVALID_PARAMS failure; an invocation of a tool that does not exist never
\* sends a request and ends with METHOD_NOT_FOUND; an invocation of an
\* existing tool with its required arguments does not fail in these ways.
C25_RejectedBeforeAnyRequest ==
    \A p \in Sessions :
        /\ (LacksRequired(p) \/ tool[p] = "no_such_tool")
           => /\ sent[p] = NoneSent /\ ~Called(p)
              /\ pc[p] \in {"off", "start", "done"}
        /\ (LacksRequired(p) /\ pc[p] = "done")
           => /\ outcome[p].kind = "raised"
              /\ outcome[p].error.exc = "McpError"
              /\ outcome[p].error.code = "INVALID_PARAMS"
        /\ (tool[p] = "no_such_tool" /\ pc[p] = "done")
           => /\ outcome[p].kind = "raised"
              /\ outcome[p].error.exc = "McpError"
              /\ outcome[p].error.code = "METHOD_NOT_FOUND"
        /\ (pc[p] = "done" /\ outcome[p].kind = "raised"
              /\ outcome[p].error.code \in {"INVALID_PARAMS", "METHOD_NOT_FOUND"})
           => (LacksRequired(p) \/ tool[p] = "no_such_tool")

\* create_trigger with a name, an empty workflow_id and no trigger_type has
\* failed with INVALID_PARAMS and sent nothing
C25_Witness ==
    \E p \in Sessions :
        /\ tool[p] = "create_trigger"
        /\ args[p].name = "e1" /\ args[p].workflow_id = ""
        /\ args[p].trigger_type = Absent
        /\ pc[p] = "done"
        /\ outcome[p].error.code = "INVALID_PARAMS"
        /\ sent[p] = NoneSent

====
